---- MODULE Spec2Model ----
(***************************************************************************)
(* Model of cetest/cetest.go: the cardinality-estimation test driver.      *)
(*                                                                         *)
(*   RunCETestWithConfig  the orchestrator: read and decode the            *)
(*                        configuration, connect the instances, build the  *)
(*                        dataset grid, launch one goroutine per instance, *)
(*                        wait, inspect the error slots, report.           *)
(*   runOneEstCase        one EXPLAIN ANALYZE round trip.                  *)
(*   QueryType            String / UnmarshalText over qtNameMap.           *)
(*                                                                         *)
(* Indices are 0-based as in the Go source.  A Go panic is modelled as Go  *)
(* defines it: the deferred calls of the panicking goroutine run, then the *)
(* whole process exits; other goroutines keep running in between.          *)
(***************************************************************************)
EXTENDS Integers, Sequences, FiniteSets, TLC

VARIABLES
    opt,          \* the decoded Option: instance count, dataset names, query-type count, N
    mpc,          \* position of the goroutine running RunCETestWithConfig
    ret,          \* the error RunCETestWithConfig returns (Nil for none)
    proc,         \* "running", or "crashed" once a panic has ended the process
    connected,    \* tidb.ConnectToInstances has returned the instances
    closeCount,   \* closeCount[i]: how often instances[i].Close() was called
    datasets,     \* the grid datasets[insIdx][dsIdx]
    collector,    \* collector cell (ins, ds, qt) -> sequence of observations
    wg,           \* the sync.WaitGroup counter
    insErrs,      \* insErrs[i]: the error slot of instance i
    idx,          \* the loop variable of the orchestrator's current loop
    jdx,          \* the inner loop variable j of the grid construction
    worker,       \* worker[i]: position and loop variables of instance i's goroutine
    launches,     \* history: launches[i] = goroutines started for instance i
    log,          \* history: log[i] = the calls instance i's goroutine made, in order
    errOrder,     \* history: instances in the order their error slots were written
    reportCalled, \* history: GenPErrorBarChartsReport was invoked
    qt,           \* QueryType round trip: the target *qt
    qt0,          \* QueryType round trip: history, the target before the call
    text,         \* QueryType round trip: the text handed to UnmarshalText
    qtErr,        \* QueryType round trip: the error UnmarshalText returned
    qtPc,         \* QueryType round trip: position
    caseOut,      \* one case on its own: the outcomes of the calls runOneEstCase makes
    caseRes       \* one case on its own: history, what that runOneEstCase call did

runVars == <<opt, mpc, ret, proc, connected, closeCount, datasets, collector, wg,
             insErrs, idx, jdx, worker, launches, log, errOrder, reportCalled>>
qtVars == <<qt, qt0, text, qtErr, qtPc>>
caseVars == <<caseOut, caseRes>>
vars == <<runVars, qtVars, caseVars>>

-----------------------------------------------------------------------------
(* Bounds of the model. *)

MaxI == 2
MaxD == 2
MaxQ == 2
MaxCells == 6
MaxTotalCases == 40
MaxRows == 3

(* Program constants of the progress cadence, cetest.go:143. *)
ProgressEvery == 1000
ProgressParts == 20

-----------------------------------------------------------------------------
(* Strings that the code transforms are sequences of characters. *)

UpperChars == <<"A","B","C","D","E","F","G","H","I","J","K","L","M",
                "N","O","P","Q","R","S","T","U","V","W","X","Y","Z">>
LowerChars == <<"a","b","c","d","e","f","g","h","i","j","k","l","m",
                "n","o","p","q","r","s","t","u","v","w","x","y","z">>

LowerChar(c) ==
    IF \E k \in DOMAIN UpperChars : UpperChars[k] = c
    THEN LowerChars[CHOOSE k \in DOMAIN UpperChars : UpperChars[k] = c]
    ELSE c

\* strings.ToLower
ToLower(s) == [k \in DOMAIN s |-> LowerChar(s[k])]

\* the keys of datasetMap
datasetMap == { <<"z","i","p","f","x">>, <<"i","m","d","b">>,
                <<"t","p","c","c">>, <<"m","o","c","k">> }

\* dataset names a configuration of the model may carry
DatasetNames == { <<"m","o","c","k">>, <<"M","o","c","k">>, <<"c","s","v">> }

-----------------------------------------------------------------------------
(* Errors.  ins is the instance whose goroutine produced the error, -1 for *)
(* the orchestrator's own; traced records errors.Trace.                    *)

Nil == [kind |-> "nil", ins |-> -1, traced |-> FALSE]
Err(k, i) == [kind |-> k, ins |-> i, traced |-> FALSE]
Trace(e) == IF e = Nil THEN Nil ELSE [e EXCEPT !.traced = TRUE]

-----------------------------------------------------------------------------
(* Configurations. *)

RECURSIVE SeqsUpTo(_, _)
SeqsUpTo(S, n) ==
    IF n = 0 THEN { <<>> }
    ELSE LET shorter == SeqsUpTo(S, n - 1)
         IN  shorter \cup { Append(s, x) : s \in { t \in shorter : Len(t) = n - 1 }, x \in S }

NIns == opt.nIns
NDs  == Len(opt.Datasets)
NQt  == opt.nQT
Ins  == 0 .. (NIns - 1)
Cells == Ins \X (0 .. (NDs - 1)) \X (0 .. (NQt - 1))

Options ==
    { [nIns |-> i, Datasets |-> ds, nQT |-> q, N |-> n] :
        i \in 0 .. MaxI, ds \in SeqsUpTo(DatasetNames, MaxD),
        q \in 0 .. MaxQ, n \in 1 .. MaxTotalCases }

\* the configurations explored: at most MaxCells collector cells and
\* MaxTotalCases cases over all instances
ValidOption(o) ==
    /\ o.nIns * Len(o.Datasets) * o.nQT <= MaxCells
    /\ o.nIns * Len(o.Datasets) * o.nQT * o.N <= MaxTotalCases

EmptyFn == [x \in {} |-> Nil]

\* the zero value of a Dataset slot of the grid
NilDataset == [name |-> <<>>, ins |-> -1]

NoWorker == [pc |-> "unlaunched", dsIdx |-> 0, qtIdx |-> 0, i |-> 0, qsLen |-> 0]

\* what runOneEstCase returns to the worker: the error re, the number of rows.Close()
\* calls, whether ExtractEstResult was invoked, the rows scanned into results, and
\* whether the row iteration ran to the end of the rows without an error
NoResult == [re |-> Nil, closes |-> 0, extracted |-> FALSE, results |-> 0, complete |-> FALSE]

\* no case is run on its own while the orchestrator or the round trip is modelled
CaseIdle ==
    /\ caseOut = [queryOK |-> TRUE, colTypesOK |-> TRUE, nRows |-> 0, nextFailAt |-> 0,
                  scanFailAt |-> 0, extractOK |-> TRUE, closeOK |-> TRUE]
    /\ caseRes = NoResult

\* The QueryType round trip is at rest while the orchestrator is modelled.
QtIdle == qt = 0 /\ qt0 = 0 /\ text = "" /\ qtErr = FALSE /\ qtPc = "idle"

Init ==
    /\ opt \in { o \in Options : ValidOption(o) }
    /\ mpc = "readFile"
    /\ ret = Nil
    /\ proc = "running"
    /\ connected = FALSE
    /\ closeCount = [i \in Ins |-> 0]
    /\ datasets = <<>>
    /\ collector = EmptyFn
    /\ wg = 0
    /\ insErrs = EmptyFn
    /\ idx = 0
    /\ jdx = 0
    /\ worker = [i \in Ins |-> NoWorker]
    /\ launches = [i \in Ins |-> 0]
    /\ log = [i \in Ins |-> <<>>]
    /\ errOrder = <<>>
    /\ reportCalled = FALSE
    /\ QtIdle
    /\ CaseIdle

-----------------------------------------------------------------------------
(* DecodeOption, cetest.go:29-40.  tomlOK is the outcome of toml.Decode    *)
(* (which also parses the query-type names through UnmarshalText).         *)

DecodeOption(o, tomlOK) ==
    IF ~tomlOK THEN Trace(Err("toml", -1))
    ELSE IF \E k \in DOMAIN o.Datasets : ToLower(o.Datasets[k]) \notin datasetMap
         THEN Err("unknown dateset", -1)
         ELSE Nil

\* datasetMap[name]: TRUE when the lookup yields a constructor, FALSE for the nil func
Constructor(name) == name \in datasetMap

-----------------------------------------------------------------------------
(* RunCETestWithConfig up to the dispatch, cetest.go:94-126. *)

\* return err before the deferred close is registered (lines 97, 101, 106)
ReturnEarly(e) ==
    /\ ret' = e
    /\ mpc' = "returned"

\* the error is recorded and the function carries on: the return is missing
ReturnDeferredCarriesOn(e) ==
    /\ ret' = e
    /\ mpc' = mpc
    /\ idx' = idx

\* return err once the deferred close is registered: the closure of line 108 runs
ReturnDeferred(e) ==
    /\ ret' = e
    /\ mpc' = "closing"
    /\ idx' = 0

\* a panic of the orchestrator's goroutine: its deferred close runs, then the process exits
Panic ==
    /\ mpc' = "panicClosing"
    /\ idx' = 0

ReadFile ==
    /\ proc = "running" /\ mpc = "readFile"
    /\ \E ok \in BOOLEAN :
          IF ok THEN mpc' = "decode" /\ ret' = ret
          ELSE ReturnEarly(Trace(Err("ReadFile", -1)))
    /\ UNCHANGED <<opt, proc, connected, closeCount, datasets, collector, wg, insErrs,
                   idx, jdx, worker, launches, log, errOrder, reportCalled, qtVars, caseVars>>

Decode ==
    /\ proc = "running" /\ mpc = "decode"
    /\ \E tomlOK \in BOOLEAN :
          LET e == DecodeOption(opt, tomlOK)
          IN  IF e = Nil THEN mpc' = "connect" /\ ret' = ret
              ELSE ReturnEarly(e)
    /\ UNCHANGED <<opt, proc, connected, closeCount, datasets, collector, wg, insErrs,
                   idx, jdx, worker, launches, log, errOrder, reportCalled, qtVars, caseVars>>

\* lines 104-114: connect, register the deferred close, allocate the outer grid
ConnectToInstances ==
    /\ proc = "running" /\ mpc = "connect"
    /\ \E ok \in BOOLEAN :
          IF ok
          THEN /\ connected' = TRUE
               /\ datasets' = [k \in 1 .. (NIns * NDs) |-> <<>>]
               /\ mpc' = "dsRow"
               /\ idx' = 0
               /\ ret' = ret
          ELSE /\ ReturnEarly(Trace(Err("connect", -1)))
               /\ UNCHANGED <<connected, datasets, idx>>
    /\ UNCHANGED <<opt, proc, closeCount, collector, wg, insErrs, jdx, worker,
                   launches, log, errOrder, reportCalled, qtVars, caseVars>>

\* line 116: datasets[i] = make([]Dataset, len(opt.Datasets)); index out of range panics
MakeRow ==
    /\ proc = "running" /\ mpc = "dsRow" /\ idx < NIns
    /\ IF idx >= Len(datasets)
       THEN Panic /\ UNCHANGED <<datasets, jdx>>
       ELSE /\ datasets' = [datasets EXCEPT ![idx + 1] = [k \in 1 .. NDs |-> NilDataset]]
            /\ jdx' = 0
            /\ mpc' = "dsNew"
            /\ idx' = idx
    /\ UNCHANGED <<opt, ret, proc, connected, closeCount, collector, wg, insErrs, worker,
                   launches, log, errOrder, reportCalled, qtVars, caseVars>>

\* lines 117-123: one pass of the inner loop; calling the nil func panics
NewDataset ==
    /\ proc = "running" /\ mpc = "dsNew"
    /\ IF jdx >= NDs
       THEN /\ idx' = idx + 1
            /\ mpc' = "dsRow"
            /\ UNCHANGED <<datasets, jdx, ret>>
       ELSE IF ~Constructor(opt.Datasets[jdx + 1])
            THEN Panic /\ UNCHANGED <<datasets, jdx, ret>>
            ELSE \E ok \in BOOLEAN :
                   IF ok
                   THEN /\ datasets' = [datasets EXCEPT ![idx + 1][jdx + 1] =
                                           [name |-> opt.Datasets[jdx + 1], ins |-> idx]]
                        /\ jdx' = jdx + 1
                        /\ UNCHANGED <<mpc, idx, ret>>
                   ELSE /\ ReturnDeferred(Err("newDataset", -1))
                        /\ UNCHANGED <<datasets, jdx>>
    /\ UNCHANGED <<opt, proc, connected, closeCount, collector, wg, insErrs, worker,
                   launches, log, errOrder, reportCalled, qtVars, caseVars>>

\* lines 126-128: NewEstResultCollector, the WaitGroup, the error slots
NewCollector ==
    /\ proc = "running" /\ mpc = "dsRow" /\ idx >= NIns
    /\ collector' = [c \in Cells |-> <<>>]
    /\ insErrs' = [i \in Ins |-> Nil]
    /\ wg' = 0
    /\ idx' = 0
    /\ mpc' = "dispatch"
    /\ UNCHANGED <<opt, ret, proc, connected, closeCount, datasets, jdx, worker,
                   launches, log, errOrder, reportCalled, qtVars, caseVars>>

-----------------------------------------------------------------------------
(* Collaborators of the worker loop. *)

\* Dataset.GenCases(n, qt) on success: the number of queries returned
GenCasesLen(n) == n

\* EstResultCollector.AddEstResult
AddEstResult(c, insIdx, dsIdx, qtIdx, r) ==
    [c EXCEPT ![<<insIdx, dsIdx, qtIdx>>] = Append(@, r)]

\* line 143: the cadence condition divides by opt.N/20; i % 0 panics
ProgressDivByZero(i, n) ==
    /\ i % ProgressEvery # 0
    /\ n \div ProgressParts = 0

\* line 143 when it does not panic: whether the progress line is printed
ProgressCond(i, n) ==
    \/ i % ProgressEvery = 0
    \/ i % (n \div ProgressParts) = 0

(* runOneEstCase, cetest.go:168-203.  o holds the outcomes of the calls it  *)
(* makes on instance w: whether ins.Query and rows.ColumnTypes succeed, the *)
(* number nRows of plan rows, the call of rows.Next that returns false on   *)
(* an error (nextFailAt, 0 for none), the row whose rows.Scan fails         *)
(* (scanFailAt, 0 for none), and whether ExtractEstResult and rows.Close    *)
(* succeed.  Calls that are not reached carry the outcome of success.       *)
Outcome(q, c, n, nf, sf, e, cl) ==
    [queryOK |-> q, colTypesOK |-> c, nRows |-> n, nextFailAt |-> nf,
     scanFailAt |-> sf, extractOK |-> e, closeOK |-> cl]

\* the outcomes of the calls of one case whose plan has n rows, by the call that ends
\* the function: ins.Query; rows.ColumnTypes; rows.Scan of row sf; ExtractEstResult
\* after rows.Next returned false, at the end of the rows (nf = 0) or on an error
OutcomesOf(n) ==
    { Outcome(FALSE, TRUE, n, 0, 0, TRUE, TRUE) }
    \cup { Outcome(TRUE, FALSE, n, 0, 0, TRUE, cl) : cl \in BOOLEAN }
    \cup { Outcome(TRUE, TRUE, n, 0, sf, TRUE, cl) : sf \in 1 .. n, cl \in BOOLEAN }
    \cup { Outcome(TRUE, TRUE, n, nf, 0, e, cl) :
               nf \in 0 .. (n + 1), e \in BOOLEAN, cl \in BOOLEAN }

CaseOutcomes == UNION { OutcomesOf(n) : n \in 0 .. MaxRows }

\* the outcomes drawn for the cases of a whole run: plans of one row
RunOutcomes == OutcomesOf(1)

RECURSIVE ScanRows(_, _)
\* lines 190-200: the loop for rows.Next(), with k rows in results so far.  rows.Next
\* returns false at the end of the rows and also on an error; the loop tells neither
\* apart and rows.Err() is not consulted
ScanRows(o, k) ==
    IF o.nextFailAt = k + 1 THEN [scanErr |-> FALSE, n |-> k, complete |-> FALSE]
    ELSE IF k + 1 > o.nRows THEN [scanErr |-> FALSE, n |-> k, complete |-> TRUE]
    ELSE IF o.scanFailAt = k + 1 THEN [scanErr |-> TRUE, n |-> k, complete |-> FALSE]
    ELSE ScanRows(o, k + 1)

\* the deferred closure assigns the close error whether or not an error is being returned
runOneEstCaseCloseOverwrites(w, o) ==
    IF ~o.queryOK
    THEN [re |-> Trace(Err("Query", w)), closes |-> 0, extracted |-> FALSE,
          results |-> 0, complete |-> FALSE]
    ELSE LET scan == ScanRows(o, 0)
             body ==
                 IF ~o.colTypesOK
                 THEN [re |-> Err("ColumnTypes", w), extracted |-> FALSE,
                       results |-> 0, complete |-> FALSE]
                 ELSE IF scan.scanErr
                 THEN [re |-> Err("Scan", w), extracted |-> FALSE,
                       results |-> scan.n, complete |-> FALSE]
                 ELSE [re |-> IF o.extractOK THEN Nil ELSE Err("Extract", w),
                       extracted |-> TRUE,
                       results |-> scan.n, complete |-> scan.complete]
         IN  [re |-> IF ~o.closeOK THEN Err("Close", w) ELSE body.re,
              closes |-> 1,
              extracted |-> body.extracted,
              results |-> body.results,
              complete |-> body.complete]

runOneEstCase(w, o) ==
    IF ~o.queryOK
    THEN [re |-> Trace(Err("Query", w)), closes |-> 0, extracted |-> FALSE,
          results |-> 0, complete |-> FALSE]
    ELSE LET scan == ScanRows(o, 0)
             body ==
                 IF ~o.colTypesOK
                 THEN [re |-> Err("ColumnTypes", w), extracted |-> FALSE,
                       results |-> 0, complete |-> FALSE]
                 ELSE IF scan.scanErr
                 THEN [re |-> Err("Scan", w), extracted |-> FALSE,
                       results |-> scan.n, complete |-> FALSE]
                 ELSE [re |-> IF o.extractOK THEN Nil ELSE Err("Extract", w),
                       extracted |-> TRUE,
                       results |-> scan.n, complete |-> scan.complete]
         IN  [re |-> IF ~o.closeOK /\ body.re = Nil THEN Err("Close", w) ELSE body.re,
              closes |-> 1,
              extracted |-> body.extracted,
              results |-> body.results,
              complete |-> body.complete]

-----------------------------------------------------------------------------
(* The loops of the worker goroutine, cetest.go:134-154: where the          *)
(* goroutine stands next, given its loop variables.                         *)

RECURSIVE QtLoop(_), DsLoop(_)
\* line 136: for qtIdx, qt := range opt.QueryTypes
QtLoop(st) ==
    IF st.qtIdx < NQt
    THEN [st EXCEPT !.pc = "gen"]
    ELSE DsLoop([st EXCEPT !.dsIdx = @ + 1])

\* line 134: for dsIdx := range opt.Datasets
DsLoop(st) ==
    IF st.dsIdx < NDs
    THEN QtLoop([st EXCEPT !.qtIdx = 0])
    ELSE [st EXCEPT !.pc = "done"]

\* the case loop leaving the dataset's remaining query types out
CaseLoopSkipsTypes(st) ==
    IF st.i < st.qsLen
    THEN [st EXCEPT !.pc = "case"]
    ELSE DsLoop([st EXCEPT !.dsIdx = @ + 1])

\* line 142: for i, q := range qs
\* the case loop runs one index too far
CaseLoopOneMore(st) ==
    IF st.i <= st.qsLen
    THEN [st EXCEPT !.pc = "case"]
    ELSE QtLoop([st EXCEPT !.qtIdx = @ + 1])

CaseLoop(st) ==
    IF st.i < st.qsLen
    THEN [st EXCEPT !.pc = "case"]
    ELSE QtLoop([st EXCEPT !.qtIdx = @ + 1])

\* defer wg.Done() runs when the goroutine function returns or panics
DoneIf(st) == IF st.pc \in {"done", "panicked"} THEN wg - 1 ELSE wg

\* lines 139-140 and 148-149: insErrs[insIdx] = err; return
\* the slot is chosen by the dispatch loop's variable, which has run to the last
\* instance by the time the worker fails
FailWrongSlot(w, e) ==
    /\ insErrs' = [insErrs EXCEPT ![NIns - 1] = e]
    /\ errOrder' = Append(errOrder, w)
    /\ worker' = [worker EXCEPT ![w].pc = "done"]
    /\ wg' = wg - 1

Fail(w, e) ==
    /\ insErrs' = [insErrs EXCEPT ![w] = e]
    /\ errOrder' = Append(errOrder, w)
    /\ worker' = [worker EXCEPT ![w].pc = "done"]
    /\ wg' = wg - 1

-----------------------------------------------------------------------------
(* Dispatch and the worker goroutines, cetest.go:129-156. *)

\* lines 129-131: wg.Add(1); go func(insIdx)
Dispatch ==
    /\ proc = "running" /\ mpc = "dispatch"
    /\ IF idx < NIns
       THEN /\ wg' = wg + 1
            /\ worker' = [worker EXCEPT ![idx].pc = "start"]
            /\ launches' = [launches EXCEPT ![idx] = @ + 1]
            /\ idx' = idx + 1
            /\ mpc' = mpc
       ELSE /\ mpc' = "wait"
            /\ UNCHANGED <<wg, worker, launches, idx>>
    /\ UNCHANGED <<opt, ret, proc, connected, closeCount, datasets, collector, insErrs,
                   jdx, log, errOrder, reportCalled, qtVars, caseVars>>

\* lines 132-136: the goroutine starts and enters its loops
WorkerStart(w) ==
    /\ proc = "running" /\ worker[w].pc = "start"
    /\ LET st == DsLoop([worker[w] EXCEPT !.dsIdx = 0])
       IN  /\ worker' = [worker EXCEPT ![w] = st]
           /\ wg' = DoneIf(st)
    /\ UNCHANGED <<opt, mpc, ret, proc, connected, closeCount, datasets, collector,
                   insErrs, idx, jdx, launches, log, errOrder, reportCalled, qtVars, caseVars>>

\* lines 137-141: qs, err := ds.GenCases(opt.N, qt)
GenCases(w) ==
    /\ proc = "running" /\ worker[w].pc = "gen"
    /\ log' = [log EXCEPT ![w] = Append(@, <<"gen", worker[w].dsIdx, worker[w].qtIdx, 0>>)]
    /\ \E ok \in BOOLEAN :
          IF ok
          THEN LET st == CaseLoop([worker[w] EXCEPT !.qsLen = GenCasesLen(opt.N), !.i = 0])
               IN  /\ worker' = [worker EXCEPT ![w] = st]
                   /\ wg' = DoneIf(st)
                   /\ UNCHANGED <<insErrs, errOrder>>
          ELSE Fail(w, Err("GenCases", w))
    /\ UNCHANGED <<opt, mpc, ret, proc, connected, closeCount, datasets, collector,
                   idx, jdx, launches, reportCalled, qtVars, caseVars>>

\* line 143 with opt.N/20 = 0: integer divide by zero; the deferred wg.Done() runs
WorkerPanic(w) ==
    /\ proc = "running" /\ worker[w].pc = "case"
    /\ ProgressDivByZero(worker[w].i, opt.N)
    /\ worker' = [worker EXCEPT ![w].pc = "panicked"]
    /\ wg' = wg - 1
    /\ UNCHANGED <<opt, mpc, ret, proc, connected, closeCount, datasets, collector,
                   insErrs, idx, jdx, launches, log, errOrder, reportCalled, qtVars, caseVars>>

\* lines 143-151: one pass of the case loop, the calls of runOneEstCase ending as o says
RunCaseWith(w, o) ==
    /\ proc = "running" /\ worker[w].pc = "case"
    /\ ~ProgressDivByZero(worker[w].i, opt.N)
    /\    LET me  == worker[w]
              res == runOneEstCase(w, o)
              obs == [ins |-> w, ds |-> me.dsIdx, qt |-> me.qtIdx, i |-> me.i]
          IN  IF res.re # Nil
              THEN /\ Fail(w, res.re)
                   /\ log' = [log EXCEPT ![w] = Append(@, <<"exec", me.dsIdx, me.qtIdx, me.i>>)]
                   /\ UNCHANGED collector
              ELSE LET st == CaseLoop([me EXCEPT !.i = @ + 1])
                   IN  /\ collector' = AddEstResult(collector, w, me.dsIdx, me.qtIdx, obs)
                       /\ log' = [log EXCEPT ![w] =
                                     @ \o << <<"exec", me.dsIdx, me.qtIdx, me.i>>,
                                             <<"append", me.dsIdx, me.qtIdx, me.i>> >>]
                       /\ worker' = [worker EXCEPT ![w] = st]
                       /\ wg' = DoneIf(st)
                       /\ UNCHANGED <<insErrs, errOrder>>
    /\ UNCHANGED <<opt, mpc, ret, proc, connected, closeCount, datasets,
                   idx, jdx, launches, reportCalled, qtVars>>

RunCase(w) ==
    /\ \E o \in RunOutcomes : RunCaseWith(w, o)
    /\ UNCHANGED caseVars

\* an unrecovered panic of a worker goroutine ends the process
Crash ==
    /\ proc = "running"
    /\ \E w \in Ins : worker[w].pc = "panicked"
    /\ proc' = "crashed"
    /\ UNCHANGED <<opt, mpc, ret, connected, closeCount, datasets, collector, wg, insErrs,
                   idx, jdx, worker, launches, log, errOrder, reportCalled, qtVars, caseVars>>

-----------------------------------------------------------------------------
(* Await and Finalize, cetest.go:157-165, and the deferred close, 108-112. *)

\* a wait that does not block
WaitNoBarrier ==
    /\ proc = "running" /\ mpc = "wait"
    /\ mpc' = "checkErrs"
    /\ UNCHANGED <<opt, ret, proc, connected, closeCount, datasets, collector, wg,
                   insErrs, idx, jdx, worker, launches, log, errOrder, reportCalled,
                   qtVars, caseVars>>

\* line 157: wg.Wait() returns once the counter is zero
Wait ==
    /\ proc = "running" /\ mpc = "wait"
    /\ wg = 0
    /\ mpc' = "checkErrs"
    /\ UNCHANGED <<opt, ret, proc, connected, closeCount, datasets, collector, wg,
                   insErrs, idx, jdx, worker, launches, log, errOrder, reportCalled,
                   qtVars, caseVars>>

\* the last non-nil slot in index order
LastInsErr(errs) ==
    IF \E i \in DOMAIN errs : errs[i] # Nil
    THEN errs[CHOOSE i \in DOMAIN errs :
                 /\ errs[i] # Nil
                 /\ \A k \in DOMAIN errs : errs[k] # Nil => i >= k]
    ELSE Nil

\* lines 159-163: the first non-nil slot in index order, Nil if there is none
FirstInsErr(errs) ==
    IF \E i \in DOMAIN errs : errs[i] # Nil
    THEN errs[CHOOSE i \in DOMAIN errs :
                 /\ errs[i] # Nil
                 /\ \A k \in DOMAIN errs : errs[k] # Nil => i <= k]
    ELSE Nil

\* a finalize step that reports whatever the slots hold
CheckInsErrsIgnored ==
    /\ proc = "running" /\ mpc = "checkErrs"
    /\ mpc' = "report" /\ UNCHANGED <<ret, idx>>
    /\ UNCHANGED <<opt, proc, connected, closeCount, datasets, collector, wg, insErrs,
                   jdx, worker, launches, log, errOrder, reportCalled, qtVars, caseVars>>

CheckInsErrs ==
    /\ proc = "running" /\ mpc = "checkErrs"
    /\ IF FirstInsErr(insErrs) # Nil
       THEN ReturnDeferred(FirstInsErr(insErrs))
       ELSE mpc' = "report" /\ UNCHANGED <<ret, idx>>
    /\ UNCHANGED <<opt, proc, connected, closeCount, datasets, collector, wg, insErrs,
                   jdx, worker, launches, log, errOrder, reportCalled, qtVars, caseVars>>

\* line 165: return GenPErrorBarChartsReport(opt, collector)
Report ==
    /\ proc = "running" /\ mpc = "report"
    /\ reportCalled' = TRUE
    /\ \E ok \in BOOLEAN : ReturnDeferred(IF ok THEN Nil ELSE Err("report", -1))
    /\ UNCHANGED <<opt, proc, connected, closeCount, datasets, collector, wg, insErrs,
                   jdx, worker, launches, log, errOrder, qtVars, caseVars>>

\* lines 109-111: one pass of the deferred loop, ins.Close()
CloseInstance ==
    /\ proc = "running" /\ mpc \in {"closing", "panicClosing"}
    /\ idx < NIns
    /\ closeCount' = [closeCount EXCEPT ![idx] = @ + 1]
    /\ idx' = idx + 1
    /\ UNCHANGED <<opt, mpc, ret, proc, connected, datasets, collector, wg, insErrs,
                   jdx, worker, launches, log, errOrder, reportCalled, qtVars, caseVars>>

\* the deferred closure is through: RunCETestWithConfig returns ret to its caller
Return ==
    /\ proc = "running" /\ mpc = "closing"
    /\ idx >= NIns
    /\ mpc' = "returned"
    /\ UNCHANGED <<opt, ret, proc, connected, closeCount, datasets, collector, wg,
                   insErrs, idx, jdx, worker, launches, log, errOrder, reportCalled,
                   qtVars, caseVars>>

\* the deferred closure is through after a panic of the orchestrator: the process exits
PanicExit ==
    /\ proc = "running" /\ mpc = "panicClosing"
    /\ idx >= NIns
    /\ proc' = "crashed"
    /\ UNCHANGED <<opt, mpc, ret, connected, closeCount, datasets, collector, wg,
                   insErrs, idx, jdx, worker, launches, log, errOrder, reportCalled,
                   qtVars, caseVars>>

Next ==
    \/ ReadFile
    \/ Decode
    \/ ConnectToInstances
    \/ MakeRow
    \/ NewDataset
    \/ NewCollector
    \/ Dispatch
    \/ \E w \in Ins : WorkerStart(w)
    \/ \E w \in Ins : GenCases(w)
    \/ \E w \in Ins : WorkerPanic(w)
    \/ \E w \in Ins : RunCase(w)
    \/ Crash
    \/ Wait
    \/ CheckInsErrs
    \/ Report
    \/ CloseInstance
    \/ Return
    \/ PanicExit

Spec == Init /\ [][Next]_vars

-----------------------------------------------------------------------------
(* Vocabulary of the properties. *)

\* the run has ended: RunCETestWithConfig has returned, or the process has exited
RunOver == mpc = "returned" \/ proc = "crashed"

\* no error slot is set
NoSlotSet == \A i \in DOMAIN insErrs : insErrs[i] = Nil

\* every cell of instance i holds opt.N observations
FullCells(i) == \A c \in DOMAIN collector : c[1] = i => Len(collector[c]) = opt.N

\* the goroutine of instance w will take no further step of its own
Completed(w) == worker[w].pc \in {"done", "panicked"}

\* the errors RunCETestWithConfig returns before it dispatches (lines 97-121)
InitErrKinds == {"ReadFile", "toml", "unknown dateset", "connect", "newDataset"}

\* the orchestrator has left wg.Wait()
PastWait ==
    \/ mpc \in {"checkErrs", "report"}
    \/ mpc \in {"closing", "returned"} /\ ret.kind \notin InitErrKinds

RECURSIVE SumLen(_)
\* the number of observations in the cells S
SumLen(S) ==
    IF S = {} THEN 0
    ELSE LET c == CHOOSE x \in S : TRUE IN Len(collector[c]) + SumLen(S \ {c})

\* the calls one worker makes when nothing fails, in the configured order:
\* per (dataset, query-type) pair one generation, then execution and append of each case
PerPair == 1 + 2 * opt.N
ExpectedLen == NDs * NQt * PerPair
ExpectedAt(k) ==
    LET p == (k - 1) \div PerPair
        r == (k - 1) % PerPair
        d == p \div NQt
        q == p % NQt
    IN  IF r = 0 THEN <<"gen", d, q, 0>>
        ELSE IF (r - 1) % 2 = 0 THEN <<"exec", d, q, (r - 1) \div 2>>
        ELSE <<"append", d, q, (r - 1) \div 2>>

\* s is a prefix of the expected calls
InOrder(s) == Len(s) <= ExpectedLen /\ \A k \in 1 .. Len(s) : s[k] = ExpectedAt(k)

-----------------------------------------------------------------------------
(* C1: when every case generation returns N queries and every execution    *)
(* and extraction succeeds, every collector cell holds exactly N           *)
(* observations and no error slot is set, both when the orchestrator       *)
(* reaches the reporting step and when such a run has ended.               *)
C1_AllCellsFull ==
    (mpc = "report" \/ (RunOver /\ ret = Nil /\ NoSlotSet))
        => /\ \A c \in DOMAIN collector : Len(collector[c]) = opt.N
           /\ NoSlotSet

(* C2: when the run has ended with the error slot of some instance k set,  *)
(* every other launched instance whose own generations and executions all  *)
(* succeeded (its slot is not set) has appended its full D x Q x N         *)
(* observations.                                                           *)
C2_FailureIsolation ==
    (RunOver /\ ~NoSlotSet)
        => \A j \in Ins : (insErrs[j] = Nil /\ launches[j] = 1) => FullCells(j)

(* C3: one worker is launched per instance index, every observation in a   *)
(* cell of instance i was appended by the worker of instance i, none is    *)
(* lost or duplicated, and a run of more than one instance that ended      *)
(* without a failure holds I x D x Q x N observations in total.            *)
C3_PartitionSafety ==
    /\ \A i \in Ins : launches[i] <= 1
    /\ (mpc \in {"wait", "checkErrs", "report"}) => \A i \in Ins : launches[i] = 1
    /\ \A c \in DOMAIN collector : \A k \in 1 .. Len(collector[c]) :
          collector[c][k] = [ins |-> c[1], ds |-> c[2], qt |-> c[3], i |-> k - 1]
    /\ (RunOver /\ NIns > 1 /\ ret = Nil /\ NoSlotSet /\ DOMAIN collector = Cells)
          => SumLen(Cells) = NIns * NDs * NQt * opt.N

(* C4: within one worker the calls happen in the configured order: the     *)
(* worker's calls so far are a prefix of generation for pair (0,0), then   *)
(* execution and append of its cases 0..N-1 in turn, then the same for the *)
(* next pair in (dataset, query-type) order; each cell holds its cases in  *)
(* case-index order.                                                       *)
C4_WorkerOrder ==
    /\ \A w \in Ins : InOrder(log[w])
    /\ \A c \in DOMAIN collector : \A k \in 1 .. Len(collector[c]) :
          collector[c][k].i = k - 1

\* a worker has run two datasets of several cases each to the end
C4_Witness ==
    \E w \in Ins :
        /\ worker[w].pc = "done"
        /\ NDs >= 2 /\ opt.N >= 2
        /\ InOrder(log[w]) /\ Len(log[w]) = ExpectedLen

(* C5: the orchestrator inspects the error slots and reports only when     *)
(* every worker has been launched and has completed, and once it has left  *)
(* the wait no step changes the collector or an error slot.                *)
C5_JoinBarrier ==
    /\ [](PastWait => \A w \in Ins : launches[w] = 1 /\ Completed(w))
    /\ [][PastWait => (collector' = collector /\ insErrs' = insErrs)]_vars

\* the orchestrator inspects the slots after one worker failed and another succeeded
C5_Witness ==
    /\ mpc = "checkErrs"
    /\ \E a, b \in Ins :
          /\ insErrs[a] # Nil
          /\ insErrs[b] = Nil /\ worker[b].pc = "done" /\ FullCells(b) /\ NDs * NQt > 0

\* some collaborator call of the run has failed: every failure is recorded at once,
\* in ret by the orchestrator (ReturnEarly, ReturnDeferred) or in a slot (Fail)
AnyFailure == ret.kind \in (InitErrKinds \cup {"report"}) \/ ~NoSlotSet

\* the orchestrator is through Finalize
Finalized == PastWait /\ mpc \in {"closing", "returned"}

\* the lowest instance index whose slot is set
LowestSet == CHOOSE i \in Ins : insErrs[i] # Nil /\ \A k \in Ins : insErrs[k] # Nil => i <= k

(* C6: every run ends with RunCETestWithConfig returning to its caller,    *)
(* and it returns an error exactly when configuration reading or decoding, *)
(* instance connection, dataset construction, case generation, a query     *)
(* execution or extraction, or reporting has failed.                       *)
C6_ProcessExit ==
    RunOver => /\ mpc = "returned"
               /\ proc = "running"
               /\ (ret # Nil <=> AnyFailure)

(* C7: reporting is invoked if and only if no error slot is set after the  *)
(* join, and otherwise the run returns the error of the lowest-indexed     *)
(* instance whose slot is set.                                             *)
C7_Finalize ==
    /\ (mpc = "report" \/ reportCalled) => NoSlotSet
    /\ Finalized => IF NoSlotSet THEN reportCalled
                    ELSE ~reportCalled /\ ret = insErrs[LowestSet]

\* a run of two failed instances, one of which had appended observations, has returned
C7_Witness ==
    /\ mpc = "returned" /\ NIns = 2 /\ DOMAIN insErrs = Ins
    /\ insErrs[0] # Nil /\ insErrs[1] # Nil
    /\ ret = insErrs[0]
    /\ \E c \in DOMAIN collector : Len(collector[c]) > 0

(* C8 as claimed: the error a failed run returns is the one recorded        *)
(* earliest in time among all workers.                                     *)
C8_EarliestInTime ==
    (Finalized /\ errOrder # <<>>) => ret = insErrs[errOrder[1]]

(* C8 as amended: the error a failed run returns is the one recorded by    *)
(* the lowest-indexed failing instance, whatever the order in time in      *)
(* which the workers failed.                                               *)
C8_LowestIndex ==
    (Finalized /\ errOrder # <<>>)
        => /\ ret.ins \in Ins
           /\ ret = insErrs[ret.ins]
           /\ \A k \in 1 .. Len(errOrder) : ret.ins <= errOrder[k]

\* instance 1 failed first in time, instance 0 later, and the run returned instance 0's error
C8_Witness ==
    /\ mpc = "returned"
    /\ errOrder = <<1, 0>>
    /\ ret = insErrs[0]

(* C9: once the instances are connected, every instance is closed exactly  *)
(* once by the time the run has ended, never more than once, and never     *)
(* while its worker may still execute a query on it.                       *)
C9_CloseExactlyOnce ==
    /\ (connected /\ RunOver) => \A i \in Ins : closeCount[i] = 1
    /\ \A i \in Ins : closeCount[i] <= 1
    /\ \A i \in Ins : closeCount[i] > 0 => worker[i].pc \in {"unlaunched", "done", "panicked"}

-----------------------------------------------------------------------------
(* QueryType, cetest.go:43-85. *)

QueryTypes == 0 .. 9

qtNameMapDuplicate ==
    0 :> "single-col-point-query" @@
    1 :> "single-col-range-query" @@
    2 :> "multi-cols-point-query" @@
    3 :> "multi-cols-range-query-eq-prefix" @@
    4 :> "multi-cols-range-query" @@
    5 :> "most-common-value-point-query" @@
    6 :> "least-common-value-point-query" @@
    7 :> "join-eq" @@
    8 :> "join-eq" @@
    9 :> "group"

qtNameMap ==
    0 :> "single-col-point-query" @@
    1 :> "single-col-range-query" @@
    2 :> "multi-cols-point-query" @@
    3 :> "multi-cols-range-query-eq-prefix" @@
    4 :> "multi-cols-range-query" @@
    5 :> "most-common-value-point-query" @@
    6 :> "least-common-value-point-query" @@
    7 :> "join-eq" @@
    8 :> "join-non-eq" @@
    9 :> "group"

\* func (qt QueryType) String(): the zero value "" for a key the map lacks
String(q) == IF q \in DOMAIN qtNameMap THEN qtNameMap[q] ELSE ""

\* func (qt *QueryType) UnmarshalText: the outcomes the map's iteration order allows;
\* cur is *qt before the call
UnmarshalText(cur, t) ==
    IF \E k \in DOMAIN qtNameMap : qtNameMap[k] = t
    THEN { [qt |-> k, err |-> FALSE] : k \in { j \in DOMAIN qtNameMap : qtNameMap[j] = t } }
    ELSE { [qt |-> cur, err |-> TRUE] }

\* texts that are no registered name
ForeignTexts == { "", "Group", "group ", "join", "JOIN-EQ", "single-col-point", "0" }

\* the orchestrator is at rest while the round trip is modelled
RunIdle ==
    /\ opt = [nIns |-> 0, Datasets |-> <<>>, nQT |-> 0, N |-> 1]
    /\ mpc = "idle"
    /\ ret = Nil
    /\ proc = "running"
    /\ connected = FALSE
    /\ closeCount = <<>>
    /\ datasets = <<>>
    /\ collector = EmptyFn
    /\ wg = 0
    /\ insErrs = EmptyFn
    /\ idx = 0
    /\ jdx = 0
    /\ worker = <<>>
    /\ launches = <<>>
    /\ log = <<>>
    /\ errOrder = <<>>
    /\ reportCalled = FALSE

InitQT ==
    /\ RunIdle
    /\ CaseIdle
    /\ qt \in QueryTypes
    /\ qt0 = qt
    /\ text = ""
    /\ qtErr = FALSE
    /\ qtPc = "start"

\* the text is the name of a variant
TakeName ==
    /\ qtPc = "start"
    /\ \E q \in QueryTypes : text' = String(q)
    /\ qtPc' = "call"
    /\ UNCHANGED <<qt, qt0, qtErr, runVars, caseVars>>

\* the text is some other string
TakeForeign ==
    /\ qtPc = "start"
    /\ text' \in ForeignTexts
    /\ qtPc' = "call"
    /\ UNCHANGED <<qt, qt0, qtErr, runVars, caseVars>>

Unmarshal ==
    /\ qtPc = "call"
    /\ \E r \in UnmarshalText(qt, text) :
          /\ qt' = r.qt
          /\ qtErr' = r.err
    /\ qtPc' = "done"
    /\ UNCHANGED <<qt0, text, runVars, caseVars>>

NextQT ==
    \/ TakeName
    \/ TakeForeign
    \/ Unmarshal

SpecQT == InitQT /\ [][NextQT]_vars

(* C10: the names of the 10 variants are pairwise distinct; UnmarshalText  *)
(* of the name of a variant q succeeds and sets the target to q; for any   *)
(* other text it returns an error and leaves the target as it was.         *)
C10_RoundTrip ==
    /\ \A a, b \in QueryTypes : a # b => String(a) # String(b)
    /\ qtPc = "done" =>
          /\ \A q \in QueryTypes : text = String(q) => (~qtErr /\ qt = q)
          /\ (\A q \in QueryTypes : text # String(q)) => (qtErr /\ qt = qt0)

\* the name of "group" was parsed into a target that held another variant
C10_Witness ==
    /\ qtPc = "done"
    /\ text = String(9) /\ qt = 9 /\ qt0 = 0 /\ ~qtErr

-----------------------------------------------------------------------------
(* One case on its own: one pass of the case loop body (lines 143-151) with *)
(* the outcomes of the calls of runOneEstCase (lines 168-203) drawn from    *)
(* CaseOutcomes and kept in caseOut; caseRes records what the call did.     *)

\* a run of one instance, one dataset and one query type whose worker is about to run
\* its one case: the orchestrator waits at wg.Wait()
AtFirstCase ==
    /\ opt = [nIns |-> 1, Datasets |-> << <<"m","o","c","k">> >>, nQT |-> 1, N |-> 1]
    /\ mpc = "wait"
    /\ ret = Nil
    /\ proc = "running"
    /\ connected = TRUE
    /\ closeCount = [i \in {0} |-> 0]
    /\ datasets = << << [name |-> <<"m","o","c","k">>, ins |-> 0] >> >>
    /\ collector = [c \in {<<0, 0, 0>>} |-> <<>>]
    /\ wg = 1
    /\ insErrs = [i \in {0} |-> Nil]
    /\ idx = 1
    /\ jdx = 1
    /\ worker = [i \in {0} |-> [pc |-> "case", dsIdx |-> 0, qtIdx |-> 0, i |-> 0, qsLen |-> 1]]
    /\ launches = [i \in {0} |-> 1]
    /\ log = [i \in {0} |-> << <<"gen", 0, 0, 0>> >>]
    /\ errOrder = <<>>
    /\ reportCalled = FALSE

InitCase ==
    /\ AtFirstCase
    /\ QtIdle
    /\ caseOut \in CaseOutcomes
    /\ caseRes = NoResult

\* lines 143-151 for the case at hand
CaseStep ==
    /\ RunCaseWith(0, caseOut)
    /\ caseRes' = runOneEstCase(0, caseOut)
    /\ UNCHANGED caseOut

NextCase == CaseStep

SpecCase == InitCase /\ [][NextCase]_vars

\* the case at hand has been run
CaseDone == worker[0].pc = "done"

-----------------------------------------------------------------------------
(* C11: progress reporting has no bearing on the run: for every case count  *)
(* N >= 1 and every case index i in 0 .. N-1, the progress condition of     *)
(* line 143, i % 1000 == 0 || i % (N/20) == 0, is well defined wherever a   *)
(* worker evaluates it, and it never aborts a worker.                       *)
C11_ProgressHarmless ==
    \A w \in DOMAIN worker :
        /\ worker[w].pc = "case" => ~ProgressDivByZero(worker[w].i, opt.N)
        /\ worker[w].pc # "panicked"

\* the run has failed before dispatching
InitFailed == ret.kind \in InitErrKinds

(* C12: if reading or decoding the configuration, connecting the instances  *)
(* or constructing a Dataset fails, the run returns that error: no worker   *)
(* was launched, no case generated, no query executed, nothing appended to  *)
(* the collector and reporting not invoked, and the error is the one the    *)
(* run ends with.                                                           *)
C12_InitFailureAborts ==
    /\ [](InitFailed =>
            /\ mpc \in {"closing", "returned"}
            /\ proc = "running"
            /\ wg = 0
            /\ \A w \in DOMAIN worker :
                  worker[w].pc = "unlaunched" /\ launches[w] = 0 /\ log[w] = <<>>
            /\ \A c \in DOMAIN collector : collector[c] = <<>>
            /\ \A i \in DOMAIN insErrs : insErrs[i] = Nil
            /\ ~reportCalled)
    /\ [][InitFailed => ret' = ret]_vars

\* the second instance's Dataset construction failed after the first instance's row was
\* built; the run has returned that error, both instances closed
C12_Witness ==
    /\ mpc = "returned"
    /\ ret = Err("newDataset", -1)
    /\ opt.nIns = 2
    /\ \A i \in Ins : closeCount[i] = 1
    /\ datasets[1][1].ins = 0
    /\ Len(datasets[2]) >= 1 /\ datasets[2][1] = NilDataset

-----------------------------------------------------------------------------
\* the reading of the plan rows failed: a rows.Scan returned an error, or rows.Next
\* returned false on an error before the end of the rows
RowsFailed(o) == o.queryOK /\ o.colTypesOK /\ (o.scanFailAt # 0 \/ o.nextFailAt # 0)

(* C13: whenever the query, the column-type introspection or the scanning   *)
(* of the result rows fails for a case, runOneEstCase returns an error,     *)
(* ExtractEstResult is not invoked and no observation is appended for the   *)
(* case; ExtractEstResult is invoked only on a row set that was scanned     *)
(* completely without error.                                                *)
C13_ScanFailures ==
    CaseDone =>
        /\ (~caseOut.queryOK \/ ~caseOut.colTypesOK \/ RowsFailed(caseOut)) =>
               /\ caseRes.re # Nil
               /\ ~caseRes.extracted
               /\ collector[<<0, 0, 0>>] = <<>>
        /\ caseRes.extracted =>
               /\ caseOut.queryOK /\ caseOut.colTypesOK /\ ~RowsFailed(caseOut)
               /\ caseRes.results = caseOut.nRows

-----------------------------------------------------------------------------
\* the errors a worker records: of GenCases (line 139) and of runOneEstCase (line 148)
RunErrKinds == {"Query", "ColumnTypes", "Scan", "Extract", "Close"}

\* the last call of instance i's worker
LastCall(i) == log[i][Len(log[i])]

(* C14: each instance's error slot is written only by that instance's       *)
(* worker and at most once per run; a set slot holds the first error its    *)
(* worker met, from case generation or from running a case; after setting   *)
(* it the worker does no further generation, execution or append.           *)
C14_SlotDiscipline ==
    /\ [](/\ \A a, b \in 1 .. Len(errOrder) : errOrder[a] = errOrder[b] => a = b
          /\ \A i \in DOMAIN insErrs :
                IF insErrs[i] = Nil
                THEN \A k \in 1 .. Len(errOrder) : errOrder[k] # i
                ELSE /\ insErrs[i].ins = i
                     /\ \E k \in 1 .. Len(errOrder) : errOrder[k] = i
                     /\ worker[i].pc = "done"
                     /\ InOrder(log[i]) /\ Len(log[i]) >= 1
                     /\ \/ LastCall(i)[1] = "gen" /\ insErrs[i].kind = "GenCases"
                        \/ LastCall(i)[1] = "exec" /\ insErrs[i].kind \in RunErrKinds)
    /\ [][\A i \in DOMAIN insErrs :
              insErrs[i] # Nil =>
                 /\ insErrs'[i] = insErrs[i]
                 /\ log'[i] = log[i]
                 /\ worker'[i] = worker[i]
                 /\ \A c \in DOMAIN collector : c[1] = i => collector'[c] = collector[c]]_vars

\* one worker recorded a scan error after earlier calls of its own succeeded, while
\* another worker, its slot unset, is still running cases
C14_Witness ==
    \E i, j \in DOMAIN insErrs :
        /\ insErrs[i].kind = "Scan" /\ Len(log[i]) > 2
        /\ i # j /\ insErrs[j] = Nil /\ worker[j].pc = "case" /\ Len(log[j]) > 2

-----------------------------------------------------------------------------
\* the place of pair (d, q) in a worker's order of pairs
PairIndex(d, q) == d * NQt + q

\* instance k's worker has generated the cases of pair (d, q)
Generated(k, d, q) == \E n \in 1 .. Len(log[k]) : log[k][n] = <<"gen", d, q, 0>>

(* C15: if instance k's worker fails while running case j of pair (d, q),   *)
(* every cell of k for an earlier pair holds exactly N observations, cell   *)
(* (k, d, q) holds exactly j and every later cell of k is empty; if it      *)
(* fails in case generation for (d, q), cell (k, d, q) and every later cell *)
(* of k are empty.  Throughout, every cell only grows by appends and never  *)
(* holds more than the cases generated for it.                              *)
C15_PrefixShape ==
    /\ [](/\ \A k \in DOMAIN insErrs :
                insErrs[k] # Nil =>
                   LET last == LastCall(k)
                       here == PairIndex(last[2], last[3])
                   IN  \A c \in DOMAIN collector :
                          c[1] = k =>
                             Len(collector[c]) =
                                IF PairIndex(c[2], c[3]) < here THEN opt.N
                                ELSE IF PairIndex(c[2], c[3]) = here /\ last[1] = "exec"
                                     THEN last[4]
                                     ELSE 0
          /\ \A c \in DOMAIN collector :
                /\ Len(collector[c]) <= GenCasesLen(opt.N)
                /\ Len(collector[c]) > 0 => Generated(c[1], c[2], c[3]))
    /\ [][\A c \in DOMAIN collector :
              /\ Len(collector'[c]) >= Len(collector[c])
              /\ SubSeq(collector'[c], 1, Len(collector[c])) = collector[c]]_vars

\* the run has returned after a worker failed at its fourth case of the second pair: the
\* first pair's cell is full, the second holds three observations
C15_Witness ==
    /\ mpc = "returned"
    /\ \E k \in DOMAIN insErrs :
          /\ insErrs[k] # Nil
          /\ LastCall(k) = <<"exec", 1, 0, 3>>
          /\ Len(collector[<<k, 0, 0>>]) = opt.N
          /\ Len(collector[<<k, 1, 0>>]) = 3

-----------------------------------------------------------------------------
(* Runs in which a query may never return, under fair scheduling: the Go    *)
(* scheduler lets the orchestrator's goroutine and every worker goroutine   *)
(* take its next step whenever it has one.                                  *)

\* line 170 within line 146: ins.Query(sql) is called and never returns
QueryHangs(w) ==
    /\ proc = "running" /\ worker[w].pc = "case"
    /\ ~ProgressDivByZero(worker[w].i, opt.N)
    /\ worker' = [worker EXCEPT ![w].pc = "hung"]
    /\ log' = [log EXCEPT ![w] =
                  Append(@, <<"exec", worker[w].dsIdx, worker[w].qtIdx, worker[w].i>>)]
    /\ UNCHANGED <<opt, mpc, ret, proc, connected, closeCount, datasets, collector, wg,
                   insErrs, idx, jdx, launches, errOrder, reportCalled, qtVars, caseVars>>

\* the steps of the orchestrator's goroutine and of the runtime ending the process
MainStep ==
    \/ ReadFile \/ Decode \/ ConnectToInstances \/ MakeRow \/ NewDataset \/ NewCollector
    \/ Dispatch \/ Wait \/ CheckInsErrs \/ Report \/ CloseInstance \/ Return
    \/ PanicExit \/ Crash

\* the steps of instance w's goroutine
WorkerStep(w) ==
    /\ w \in Ins
    /\ WorkerStart(w) \/ GenCases(w) \/ WorkerPanic(w) \/ RunCase(w) \/ QueryHangs(w)

NextLive == Next \/ \E w \in Ins : QueryHangs(w)

SpecLive ==
    /\ Init /\ [][NextLive]_vars
    /\ WF_vars(MainStep)
    /\ \A w \in 0 .. (MaxI - 1) : WF_vars(WorkerStep(w))

\* a query call of some worker never returns
SomeHung == \E w \in DOMAIN worker : worker[w].pc = "hung"

(* C16: if every case generation and every query call returns, every worker *)
(* signals completion exactly once and the run ends by returning, Done or   *)
(* Failed: a state from which no step is left is one in which               *)
(* RunCETestWithConfig has returned; and while a query call hangs the       *)
(* orchestrator never leaves the wait.                                      *)
C16_Termination ==
    /\ (~SomeHung /\ ~ENABLED NextLive) => (mpc = "returned" /\ proc = "running")
    /\ wg = Cardinality({ w \in DOMAIN worker :
                            worker[w].pc \in {"start", "gen", "case", "hung"} })
    /\ SomeHung => ~PastWait

-----------------------------------------------------------------------------
\* DecodeOption has accepted the configuration (lines 99-102 passed)
Accepted ==
    /\ mpc \notin {"idle", "readFile", "decode"}
    /\ ret.kind \notin {"ReadFile", "toml", "unknown dateset"}

(* C17: for every configuration that DecodeOption accepts, the constructor  *)
(* lookup of line 119 finds a registered constructor for each configured    *)
(* dataset name: the names validation accepts are names the lookup          *)
(* resolves.                                                                *)
C17_NamesResolve ==
    /\ Accepted => \A k \in 1 .. NDs : Constructor(opt.Datasets[k])
    /\ (mpc = "dsNew" /\ jdx < NDs) => Constructor(opt.Datasets[jdx + 1])

\* the loops of lines 115-124 have run to the end
GridBuilt ==
    \/ mpc = "dsRow" /\ idx >= NIns
    \/ mpc \in {"dispatch", "wait", "checkErrs", "report"}
    \/ mpc \in {"closing", "returned"} /\ connected /\ ret.kind \notin InitErrKinds

(* C18: for every configuration with I >= 1 instances and D >= 0 datasets   *)
(* the grid, of outer length I*D, is indexed in range for every i < I, and  *)
(* once constructed its row i holds exactly D dataset collaborators, one    *)
(* per configured dataset in the configured order, each bound to instance   *)
(* i.                                                                       *)
C18_GridInRange ==
    /\ (mpc = "dsRow" /\ idx < NIns) => idx < Len(datasets)
    /\ GridBuilt =>
          \A i \in Ins :
              /\ i < Len(datasets)
              /\ Len(datasets[i + 1]) = NDs
              /\ \A j \in 1 .. NDs :
                    datasets[i + 1][j] = [name |-> opt.Datasets[j], ins |-> i]

-----------------------------------------------------------------------------
\* no call of the body of runOneEstCase after the query returned an error
BodyOK(o) == o.colTypesOK /\ o.scanFailAt = 0 /\ o.extractOK

(* C19: in runOneEstCase, once the query has succeeded the rows are closed  *)
(* exactly once on every return path; a close error is returned only when   *)
(* no earlier error occurred and never overwrites one; when the query call  *)
(* itself fails the rows are never closed.                                  *)
C19_RowsClosed ==
    CaseDone =>
        /\ caseOut.queryOK => caseRes.closes = 1
        /\ ~caseOut.queryOK => (caseRes.closes = 0 /\ caseRes.re.kind = "Query")
        /\ caseRes.re.kind = "Close" => (~caseOut.closeOK /\ BodyOK(caseOut))
        /\ (caseOut.queryOK /\ ~BodyOK(caseOut)) =>
               caseRes.re.kind =
                   IF ~caseOut.colTypesOK THEN "ColumnTypes"
                   ELSE IF caseOut.scanFailAt # 0 THEN "Scan"
                   ELSE "Extract"
        /\ insErrs[0] = caseRes.re

\* the scan of the second row failed and the close failed as well: the rows were closed
\* once and the scan error was returned
C19_Witness ==
    /\ CaseDone
    /\ caseOut.scanFailAt = 2 /\ ~caseOut.closeOK
    /\ caseRes.closes = 1
    /\ caseRes.re = Err("Scan", 0)

====
